---- MODULE Spec2Model ----
(***************************************************************************)
(* Model of the EdgeSAM inference orchestration layer (src/src/edgeSam.cpp *)
(* and src/src/edgeSam.h): the SamModel constructor, getInputSize,         *)
(* loadImage and getMask, with the ONNX runtime and OpenCV calls they      *)
(* make.  One session object is driven by an arbitrary caller.             *)
(***************************************************************************)
EXTENDS Integers, Sequences, FiniteSets, TLC

VARIABLES
    models,     \* the two model files named by Sam::Parameter::models
    m_model,    \* the SamModel object owned by Sam
    pc,         \* position of the caller / of the handler in progress
    image,      \* argument of the loadImage call in progress
    prompt,     \* arguments of the getMask call in progress
    loc,        \* local variables of the handler in progress
    ret,        \* what the last finished call gave back to the caller
    runs,       \* runtime invocations made by the call in progress / last call
    hist,       \* history of loadImage calls (observation only)
    twin,       \* a second session on the same model pair, and what the
                \* two sessions' calls gave back (used by SpecTwin only)
    threads     \* a second thread calling getMask on the session while pc
                \* is the position of a thread in loadImage, and the heap
                \* block the embedding buffer lives in (SpecThreads only)

vars == <<models, m_model, pc, image, prompt, loc, ret, runs, hist, twin, threads>>

(***************************************************************************)
(* Bounds of the model.                                                    *)
(***************************************************************************)
MaxPoints == 2          \* longest list of positive points
MaxNegPoints == 1       \* longest list of negative points
BigCoord == 2^24 + 1    \* an int that a 32-bit float cannot hold exactly

(***************************************************************************)
(* Arithmetic helpers.                                                     *)
(***************************************************************************)
Abs(n) == IF n < 0 THEN -n ELSE n

RECURSIVE Product(_)
Product(s) == IF s = <<>> THEN 1 ELSE Head(s) * Product(Tail(s))

RECURSIVE WeightedSum(_, _)
\* sum over k of (k + off) * s[k]
WeightedSum(s, off) ==
    IF s = <<>> THEN 0
    ELSE (Len(s) + off) * s[Len(s)] + WeightedSum(SubSeq(s, 1, Len(s) - 1), off)

Zeros(n) == [k \in 1..n |-> 0]

\* significand width of the float type the coordinates are cast to
FloatMantissaBits == 24

RECURSIVE Ulp(_, _)
Ulp(a, u) == IF a < (2^FloatMantissaBits) * u THEN u ELSE Ulp(a, 2 * u)

\* (float)n for an int n: round to nearest, ties to even
ToFloat(n) ==
    LET a == Abs(n)
        u == Ulp(a, 1)
        q == a \div u
        r == a % u
        rounded == IF 2 * r > u \/ (2 * r = u /\ q % 2 = 1)
                   THEN (q + 1) * u ELSE q * u
    IN  IF n < 0 THEN -rounded ELSE rounded

(***************************************************************************)
(* The model pair on disk: what the runtime reports about each file.       *)
(***************************************************************************)
ShapesPre == { <<1, 3, 1, 2>>, <<3, 1, 2>> }     \* declared input shapes
ShapesEmb == { <<1, 1, 1, 2>>, <<1, 1, 2>> }     \* declared output shapes
ShapesMask == { <<1, 1, 1, 2>>, <<1, 1, 1, 4>>, <<1, 1, 1, 1>> }

AllModelPairs ==
    [ exists      : [0..1 -> BOOLEAN],   \* std::ifstream(p).good()
      preInputs   : {1, 2},              \* sessionPre->GetInputCount()
      preOutputs  : {1, 2},              \* sessionPre->GetOutputCount()
      samInputs   : {3, 6},              \* sessionSam->GetInputCount()
      preInShape  : ShapesPre,
      preOutShape : ShapesEmb,
      maskShape   : ShapesMask ]         \* shape of the decoder's "masks"

\* what the constructor requires of a pair (lines 21-53)
ValidPair(p) ==
    /\ p.exists[0] /\ p.exists[1]
    /\ p.preInputs = 1 /\ p.preOutputs = 1
    /\ p.samInputs = 3
    /\ Len(p.preInShape) = 4 /\ Len(p.preOutShape) = 4

\* the mask shape only matters for a decoder that gets to run
ModelPairs ==
    { p \in AllModelPairs : ValidPair(p) \/ p.maskShape = <<1, 1, 1, 2>> }

(***************************************************************************)
(* SamModel::SamModel                                                      *)
(***************************************************************************)
NewSamModel ==
    [ sessionPre |-> "null", sessionSam |-> "null",
      inputShapePre |-> <<>>, outputShapePre |-> <<>>,
      outputTensorValuesPre |-> <<>>,
      bModelLoaded |-> FALSE ]

\* faulty variant: only the input shape's rank is checked
SamModelCtorInputRankOnly(param) ==
    IF ~(param.exists[0] /\ param.exists[1]) THEN NewSamModel
    ELSE IF param.preInputs # 1 \/ param.preOutputs # 1
    THEN [NewSamModel EXCEPT !.sessionPre = "open"]
    ELSE IF param.samInputs # 3
    THEN [NewSamModel EXCEPT !.sessionPre = "open", !.sessionSam = "open"]
    ELSE [NewSamModel EXCEPT !.sessionPre = "open",
                             !.sessionSam = "open",
                             !.inputShapePre = param.preInShape,
                             !.outputShapePre = param.preOutShape,
                             !.bModelLoaded = (Len(param.preInShape) = 4)]

\* faulty variant: both sessions are opened before either is checked
SamModelCtorOpensBothFirst(param) ==
    IF ~(param.exists[0] /\ param.exists[1]) THEN NewSamModel
    ELSE IF param.preInputs # 1 \/ param.preOutputs # 1
    THEN [NewSamModel EXCEPT !.sessionPre = "open", !.sessionSam = "open"]
    ELSE IF param.samInputs # 3
    THEN [NewSamModel EXCEPT !.sessionPre = "open", !.sessionSam = "open"]
    ELSE LET opened == [NewSamModel EXCEPT !.sessionPre = "open",
                                           !.sessionSam = "open",
                                           !.inputShapePre = param.preInShape,
                                           !.outputShapePre = param.preOutShape]
         IN  IF Len(param.preInShape) # 4 \/ Len(param.preOutShape) # 4
             THEN opened
             ELSE [opened EXCEPT !.bModelLoaded = TRUE]

\* faulty variant: the decoder is required to declare the auxiliary inputs
\* as well, six inputs in all
SamModelCtorSixInputs(param) ==
    IF ~(param.exists[0] /\ param.exists[1]) THEN NewSamModel
    ELSE IF param.preInputs # 1 \/ param.preOutputs # 1
    THEN [NewSamModel EXCEPT !.sessionPre = "open"]
    ELSE IF param.samInputs # 6
    THEN [NewSamModel EXCEPT !.sessionPre = "open", !.sessionSam = "open"]
    ELSE LET opened == [NewSamModel EXCEPT !.sessionPre = "open",
                                           !.sessionSam = "open",
                                           !.inputShapePre = param.preInShape,
                                           !.outputShapePre = param.preOutShape]
         IN  IF Len(param.preInShape) # 4 \/ Len(param.preOutShape) # 4
             THEN opened
             ELSE [opened EXCEPT !.bModelLoaded = TRUE]

SamModelCtor(param) ==
    IF ~(param.exists[0] /\ param.exists[1]) THEN NewSamModel
    ELSE IF param.preInputs # 1 \/ param.preOutputs # 1
    THEN [NewSamModel EXCEPT !.sessionPre = "open"]
    ELSE IF param.samInputs # 3
    THEN [NewSamModel EXCEPT !.sessionPre = "open", !.sessionSam = "open"]
    ELSE LET opened == [NewSamModel EXCEPT !.sessionPre = "open",
                                           !.sessionSam = "open",
                                           !.inputShapePre = param.preInShape,
                                           !.outputShapePre = param.preOutShape]
         IN  IF Len(param.preInShape) # 4 \/ Len(param.preOutShape) # 4
             THEN opened
             ELSE [opened EXCEPT !.bModelLoaded = TRUE]

(***************************************************************************)
(* SamModel::getInputSize; a cv::Size is <<width, height>>, and the        *)
(* shape's dimension d (counted from 0) is element d + 1 of the sequence.  *)
(***************************************************************************)
getInputSize(m) ==
    IF ~m.bModelLoaded THEN <<0, 0>>
    ELSE <<m.inputShapePre[4], m.inputShapePre[3]>>

(***************************************************************************)
(* Images (cv::Mat, 8-bit, interleaved channels, row-major) offered to     *)
(* loadImage.  NoImage is the empty cv::Mat.                               *)
(***************************************************************************)
NoImage == [rows |-> 0, cols |-> 0, channels |-> 0, data |-> <<>>]

ImageA == [rows |-> 1, cols |-> 2, channels |-> 3,
           data |-> <<10, 20, 30, 40, 50, 60>>]
ImageB == [rows |-> 1, cols |-> 2, channels |-> 3,
           data |-> <<255, 0, 51, 102, 153, 204>>]
ImageTall == [rows |-> 2, cols |-> 1, channels |-> 3,
              data |-> <<10, 20, 30, 40, 50, 60>>]
ImageWide == [rows |-> 1, cols |-> 3, channels |-> 3,
              data |-> <<1, 2, 3, 4, 5, 6, 7, 8, 9>>]
ImageGray == [rows |-> 1, cols |-> 2, channels |-> 1, data |-> <<7, 9>>]
ImageBGRA == [rows |-> 1, cols |-> 2, channels |-> 4,
              data |-> <<10, 20, 30, 255, 40, 50, 60, 255>>]

Images == {ImageA, ImageB, ImageTall, ImageWide, ImageGray, ImageBGRA}

\* image.at<cv::Vec3b>(i, j)[c]
At(img, i, j, c) == img.data[(i * img.cols + j) * img.channels + c + 1]

\* image.size(), a cv::Size <<width, height>>
SizeOf(img) == <<img.cols, img.rows>>

(***************************************************************************)
(* SamModel::loadImage, lines 72-87: the planar, channel-reversed input    *)
(* tensor.  A tensor element is <<numerator, denominator>>.                *)
(***************************************************************************)
RECURSIVE FillPlanes(_, _, _, _)
\* the double loop over (i, j), pixel number p = i * W + j, p = 0 .. n - 1
FillPlanes(t, img, shape, p) ==
    IF p = shape[3] * shape[4] THEN t
    ELSE LET i == p \div shape[4]
             j == p % shape[4]
             t1 == [t EXCEPT
                      ![i * shape[4] + j + 1] = At(img, i, j, 2),
                      ![shape[3] * shape[4] + i * shape[4] + j + 1] = At(img, i, j, 1),
                      ![2 * shape[3] * shape[4] + i * shape[4] + j + 1] = At(img, i, j, 0)]
         IN  FillPlanes(t1, img, shape, p + 1)

\* faulty variant: the pixels are copied in the image's own interleaved
\* order
PreprocessInterleaved(img, shape) ==
    [k \in 1..Product(shape) |-> <<img.data[k], 255>>]

Preprocess(img, shape) ==
    LET raw == FillPlanes(Zeros(Product(shape)), img, shape, 0)
    IN  [k \in 1..Len(raw) |-> <<raw[k], 255>>]

(***************************************************************************)
(* The external runtime.  sessionPre->Run is a deterministic function of   *)
(* its input tensor; it writes Product(outShape) floats.                   *)
(***************************************************************************)
Numerators(t) == [k \in 1..Len(t) |-> t[k][1]]

RunPre(inputTensor, outShape) ==
    [k \in 1..Product(outShape) |->
        (WeightedSum(Numerators(inputTensor), k) % 251) + 1]

\* the output buffer after a Run that stopped having written n elements
PartialRun(inputTensor, outShape, n) ==
    [k \in 1..Product(outShape) |->
        IF k <= n THEN RunPre(inputTensor, outShape)[k] ELSE 0]

(***************************************************************************)
(* SamModel::getMask, lines 115-134: prompt encoding.                      *)
(***************************************************************************)
RectEmpty(r) == r.width <= 0 \/ r.height <= 0          \* cv::Rect::empty()
Br(r) == [x |-> r.x + r.width, y |-> r.y + r.height]   \* cv::Rect::br()

RECURSIVE PushPoints(_, _, _)
\* the loop "for (auto& point : list)" appending to both vectors
PushPoints(enc, list, label) ==
    IF list = <<>> THEN enc
    ELSE PushPoints(
           [inputPointValues |->
               enc.inputPointValues \o <<ToFloat(Head(list).x), ToFloat(Head(list).y)>>,
            inputLabelValues |-> enc.inputLabelValues \o <<label>>],
           Tail(list), label)

\* faulty variant: the second entry holds the box's extent, not its corner
PushBoxExtent(enc, roi) ==
    IF ~RectEmpty(roi)
    THEN [inputPointValues |->
              enc.inputPointValues \o <<ToFloat(roi.x), ToFloat(roi.y),
                                        ToFloat(roi.width), ToFloat(roi.height)>>,
          inputLabelValues |-> enc.inputLabelValues \o <<2, 3>>]
    ELSE enc

PushBox(enc, roi) ==
    IF ~RectEmpty(roi)
    THEN [inputPointValues |->
              enc.inputPointValues \o <<ToFloat(roi.x), ToFloat(roi.y),
                                        ToFloat(Br(roi).x), ToFloat(Br(roi).y)>>,
          inputLabelValues |-> enc.inputLabelValues \o <<2, 3>>]
    ELSE enc

\* faulty variant: the negative points are appended before the positive ones
EncodePromptNegativesFirst(points, negativePoints, roi) ==
    PushBox(
      PushPoints(
        PushPoints([inputPointValues |-> <<>>, inputLabelValues |-> <<>>],
                   negativePoints, 0),
        points, 1),
      roi)

EncodePrompt(points, negativePoints, roi) ==
    PushBox(
      PushPoints(
        PushPoints([inputPointValues |-> <<>>, inputLabelValues |-> <<>>], points, 1),
        negativePoints, 0),
      roi)

(***************************************************************************)
(* sessionSam->Run: a deterministic function of the three input tensors.   *)
(* It returns "scores" and "masks"; the masks tensor has the shape the     *)
(* decoder model declares.  A cv::Mat of floats is [rows, cols, data] with *)
(* data row-major and every element <<numerator, denominator>>.            *)
(***************************************************************************)
NoMat == [rows |-> 0, cols |-> 0, data |-> <<>>]

RunSam(embedding, pointCoords, pointLabels, maskShape) ==
    LET s == WeightedSum(embedding, 0) + WeightedSum(pointCoords, 1)
               + WeightedSum(pointLabels, 2)
    IN  [scores |-> << <<(s % 7) - 1, 4>>, <<((s + 3) % 7) - 1, 4>> >>,
         masks  |-> [k \in 1..Product(maskShape) |-> <<((s + 3 * k) % 5) - 2, 1>>]]

(***************************************************************************)
(* cv::resize(src, dst, dsize) with the default INTER_LINEAR.              *)
(***************************************************************************)
\* source index and weight numerator (over 2 * dn) of destination index d
LinearCoef(d, sn, dn) ==
    LET f2 == (2 * d + 1) * sn - dn          \* 2 * dn * ((d + 0.5) * sn / dn - 0.5)
        s0 == f2 \div (2 * dn)
        fr == f2 - s0 * (2 * dn)
    IN  IF s0 < 0 THEN [s |-> 0, f |-> 0]
        ELSE IF s0 >= sn - 1 THEN [s |-> sn - 1, f |-> 0]
        ELSE [s |-> s0, f |-> fr]

Clip(v, n) == IF v < 0 THEN 0 ELSE IF v > n - 1 THEN n - 1 ELSE v

Resize(src, dsize) ==
    LET dw == dsize[1]
        dh == dsize[2]
        px(y, x) == src.data[Clip(y, src.rows) * src.cols + Clip(x, src.cols) + 1]
        val(dy, dx) ==
            LET cx == LinearCoef(dx, src.cols, dw)
                cy == LinearCoef(dy, src.rows, dh)
                wx0 == 2 * dw - cx.f
                wy0 == 2 * dh - cy.f
            IN  << wy0 * (wx0 * px(cy.s, cx.s)[1] + cx.f * px(cy.s, cx.s + 1)[1])
                     + cy.f * (wx0 * px(cy.s + 1, cx.s)[1] + cx.f * px(cy.s + 1, cx.s + 1)[1]),
                   px(cy.s, cx.s)[2] * 4 * dw * dh >>
    IN  [rows |-> dh, cols |-> dw,
         data |-> [k \in 1..(dw * dh) |-> val((k - 1) \div dw, (k - 1) % dw)]]

MatSize(mat) == <<mat.cols, mat.rows>>

(***************************************************************************)
(* SamModel::getMask, lines 178-182: thresholding of the float image into  *)
(* the 8-bit mask, read at the mask's own (i, j).                          *)
(***************************************************************************)
\* faulty variant: a logit of exactly 0 counts as foreground
ThresholdNonNegative(outputMaskImage, outputMaskSam) ==
    [outputMaskSam EXCEPT !.data =
        [k \in 1..(outputMaskSam.rows * outputMaskSam.cols) |->
            LET i == (k - 1) \div outputMaskSam.cols
                j == (k - 1) % outputMaskSam.cols
            IN  IF outputMaskImage.data[i * outputMaskImage.cols + j + 1][1] >= 0
                THEN 255 ELSE 0]]

Threshold(outputMaskImage, outputMaskSam) ==
    [outputMaskSam EXCEPT !.data =
        [k \in 1..(outputMaskSam.rows * outputMaskSam.cols) |->
            LET i == (k - 1) \div outputMaskSam.cols
                j == (k - 1) % outputMaskSam.cols
            IN  IF outputMaskImage.data[i * outputMaskImage.cols + j + 1][1] > 0
                THEN 255 ELSE 0]]

(***************************************************************************)
(* Arguments the caller may pass to getMask.                               *)
(***************************************************************************)
PointPool == { [x |-> 1, y |-> 0], [x |-> BigCoord, y |-> 3] }

RectPool == { [x |-> 0, y |-> 0, width |-> 0, height |-> 0],     \* cv::Rect{}
              [x |-> 0, y |-> 0, width |-> 2, height |-> 1],
              [x |-> 1, y |-> 0, width |-> 0, height |-> 1],     \* zero width
              [x |-> 0, y |-> 1, width |-> 2, height |-> 0],     \* zero height
              [x |-> 2, y |-> 1, width |-> -1, height |-> 1],    \* negative width
              [x |-> BigCoord, y |-> 0, width |-> 2, height |-> 1] }

SeqsUpTo(S, n) == UNION { [1..k -> S] : k \in 0..n }

\* cv::Rect{} and cv::Point{}, what "{}" constructs
DefaultRect == [x |-> 0, y |-> 0, width |-> 0, height |-> 0]
DefaultPoint == [x |-> 0, y |-> 0]

\* The calls of Sam::getMask a caller can write: the form (overload) used
\* and the arguments given to it; a parameter the form does not have holds
\* its default-constructed value.
Calls ==
    [ form : {"roi"}, point : {DefaultPoint},
      points         : SeqsUpTo(PointPool, MaxPoints),
      negativePoints : SeqsUpTo(PointPool, MaxNegPoints),
      roi            : RectPool,
      iou            : {"null", "ptr"} ]       \* double* iou
    \cup
    [ form : {"points"}, point : {DefaultPoint},
      points         : SeqsUpTo(PointPool, MaxPoints),
      negativePoints : SeqsUpTo(PointPool, MaxNegPoints),
      roi            : {DefaultRect},
      iou            : {"null", "ptr"} ]
    \cup
    [ form : {"point"}, point : PointPool,
      points : {<<>>}, negativePoints : {<<>>}, roi : {DefaultRect},
      iou    : {"null", "ptr"} ]

NoCall == [form |-> "none", point |-> DefaultPoint, points |-> <<>>,
           negativePoints |-> <<>>, roi |-> DefaultRect, iou |-> "null"]

\* lines 203-204: the arguments of the four-parameter Sam::getMask
getMaskRoi(points, negativePoints, roi, iou) ==
    [points |-> points, negativePoints |-> negativePoints, roi |-> roi, iou |-> iou]

\* lines 198-201: getMask(points, negativePoints, {}, iou)
getMaskPoints(points, negativePoints, iou) ==
    getMaskRoi(points, negativePoints, DefaultRect, iou)

\* faulty variant: the point is passed on as a one-pixel box as well
getMaskPointAsBox(point, iou) ==
    getMaskRoi(<<point>>, <<>>,
               [x |-> point.x, y |-> point.y, width |-> 1, height |-> 1], iou)

\* lines 194-196: getMask({point}, {}, {}, iou)
getMaskPoint(point, iou) ==
    getMaskRoi(<<point>>, <<>>, DefaultRect, iou)

\* overload resolution: the arguments the four-parameter form is entered
\* with, and the call they came from
Dispatch(c) ==
    LET a == IF c.form = "point" THEN getMaskPoint(c.point, c.iou)
             ELSE IF c.form = "points"
             THEN getMaskPoints(c.points, c.negativePoints, c.iou)
             ELSE getMaskRoi(c.points, c.negativePoints, c.roi, c.iou)
    IN  [points |-> a.points, negativePoints |-> a.negativePoints,
         roi |-> a.roi, iou |-> a.iou, call |-> c]

Prompts == { Dispatch(c) : c \in Calls }

NoPrompt == [points |-> <<>>, negativePoints |-> <<>>,
             roi |-> DefaultRect, iou |-> "null", call |-> NoCall]

(***************************************************************************)
(* State outside a call.                                                   *)
(***************************************************************************)
NoLoc == [inputTensorValuesFloat |-> <<>>,
          maskInputValues |-> <<>>, hasMaskValues |-> <<>>,
          orig_im_size_values |-> <<>>,
          inputPointValues |-> <<>>, inputLabelValues |-> <<>>,
          scores |-> <<>>, outputMaskImage |-> NoMat, outputMaskSam |-> NoMat,
          resized |-> FALSE]

NoRet == [op |-> "none", kind |-> "none", size |-> <<>>, mask |-> NoMat, iou |-> <<>>]

NoRuns == [pre |-> 0, sam |-> 0, samInputs |-> <<>>]

\* lastOk, prevOk: the images of the last two loadImage calls that returned
\* true; tainted: a later loadImage got past the checks without returning
\* true; rejected: a later loadImage was turned down by the checks
NoHist == [lastOk |-> NoImage, prevOk |-> NoImage, tainted |-> FALSE, rejected |-> FALSE]

Returned(op, kind) == [NoRet EXCEPT !.op = op, !.kind = kind]

\* a getMask result of one of the two sessions of SpecTwin, with the image
\* the session had last loaded when the call was made
NoTwinResult == [prompt |-> NoPrompt, ret |-> NoRet, img |-> NoImage, tainted |-> FALSE]

NoTwin == [m |-> NewSamModel,
           h |-> [s \in 1..2 |-> NoHist],
           r |-> [s \in 1..2 |-> NoTwinResult],
           first |-> [s \in 1..2 |-> NoTwinResult]]

\* block: which allocation outputTensorValuesPre.data() points into (it
\* changes with every assignment to the vector, line 93); written: how many
\* elements the embedding model's Run has stored so far; g: the thread in
\* getMask, view being the block its image_embeddings tensor was created
\* over and seen the data the decoder read through it
NoMasker == [pc |-> "none", prompt |-> NoPrompt, loc |-> NoLoc, ret |-> NoRet,
             view |-> 0, ran |-> FALSE, seen |-> <<>>]

NoThreads == [block |-> 0, written |-> 0, g |-> NoMasker]

Init ==
    /\ models \in ModelPairs
    /\ m_model = NewSamModel
    /\ pc = "new"
    /\ image = NoImage
    /\ prompt = NoPrompt
    /\ loc = NoLoc
    /\ ret = NoRet
    /\ runs = NoRuns
    /\ hist = NoHist
    /\ twin = NoTwin
    /\ threads = NoThreads

\* Sam::Sam: m_model(new SamModel(param))
Construct ==
    /\ pc = "new"
    /\ m_model' = SamModelCtor(models)
    /\ pc' = "idle"
    /\ UNCHANGED <<models, twin, threads, image, prompt, loc, ret, runs, hist>>

\* the caller takes what the call gave back and goes on
Continue ==
    /\ pc = "returned"
    /\ pc' = "idle"
    /\ image' = NoImage
    /\ prompt' = NoPrompt
    /\ loc' = NoLoc
    /\ ret' = NoRet
    /\ runs' = NoRuns
    /\ UNCHANGED <<models, twin, threads, m_model, hist>>

\* Sam::getInputSize
GetInputSize ==
    /\ pc = "idle"
    /\ ret' = [Returned("getInputSize", "size") EXCEPT !.size = getInputSize(m_model)]
    /\ pc' = "returned"
    /\ UNCHANGED <<models, twin, threads, m_model, image, prompt, loc, runs, hist>>

(***************************************************************************)
(* SamModel::loadImage                                                     *)
(***************************************************************************)
\* faulty variant: width and height are taken from the wrong dimensions
ValidateImageTransposed(m, img) ==
    IF SizeOf(img) # <<m.inputShapePre[3], m.inputShapePre[4]>> THEN "size"
    ELSE IF img.channels # 3 THEN "channels"
    ELSE "ok"

\* lines 63-70: the two checks on the argument
ValidateImage(m, img) ==
    IF SizeOf(img) # <<m.inputShapePre[4], m.inputShapePre[3]>> THEN "size"
    ELSE IF img.channels # 3 THEN "channels"
    ELSE "ok"

\* faulty variant: the buffer is sized from the input shape
LoadImageAllocInputSized(m) ==
    [m EXCEPT !.outputTensorValuesPre = Zeros(Product(m.inputShapePre))]

\* lines 93-94: the embedding buffer becomes a new zero-filled vector
LoadImageAlloc(m) ==
    [m EXCEPT !.outputTensorValuesPre = Zeros(Product(m.outputShapePre))]

\* faulty variant: the output tensor covers the buffer's first element only
LoadImageStoreFirstOnly(m, inputTensor) ==
    [m EXCEPT !.outputTensorValuesPre =
        [k \in 1..Len(m.outputTensorValuesPre) |->
            IF k = 1 THEN RunPre(inputTensor, m.outputShapePre)[k]
            ELSE m.outputTensorValuesPre[k]]]

\* faulty variant: the shape recorded for the embedding is overwritten by
\* the flat length of what Run wrote
LoadImageStoreFlattensShape(m, inputTensor) ==
    [m EXCEPT !.outputTensorValuesPre = RunPre(inputTensor, m.outputShapePre),
              !.outputShapePre = <<Product(m.outputShapePre)>>]

\* lines 95-102: Run fills the buffer the output tensor was created over
LoadImageStore(m, inputTensor) ==
    [m EXCEPT !.outputTensorValuesPre = RunPre(inputTensor, m.outputShapePre)]

\* faulty variant: a Run that throws also marks the session not ready
LoadImageStorePartialMarksNotReady(m, inputTensor, n) ==
    [m EXCEPT !.outputTensorValuesPre = PartialRun(inputTensor, m.outputShapePre, n),
              !.bModelLoaded = FALSE]

\* lines 95-102 when Run throws after it has written n elements
LoadImageStorePartial(m, inputTensor, n) ==
    [m EXCEPT !.outputTensorValuesPre = PartialRun(inputTensor, m.outputShapePre, n)]

\* A shape vector is read at an index it does not have (line 63 on an
\* empty or rank-3 inputShapePre, line 93 on a rank-3 outputShapePre): the
\* behaviour is undefined, the build may crash, compare against garbage and
\* return false, or throw from an allocation or from CreateTensor.
LoadImageOutOfRange ==
    /\ pc = "idle"
    /\ \E img \in Images :
        /\ \/ Len(m_model.inputShapePre) < 4
           \/ /\ Len(m_model.inputShapePre) >= 4
              /\ ValidateImage(m_model, img) = "ok"
              /\ Len(m_model.outputShapePre) < 4
        /\ image' = img
        /\ \/ /\ pc' = "crashed"
              /\ ret' = Returned("loadImage", "crash")
              /\ UNCHANGED <<m_model, hist>>
           \/ /\ Len(m_model.inputShapePre) < 4
              /\ pc' = "returned"
              /\ ret' = Returned("loadImage", "false")
              /\ UNCHANGED <<m_model, hist>>
           \/ /\ pc' = "returned"
              /\ ret' = Returned("loadImage", "exception")
              /\ \E cache \in {m_model.outputTensorValuesPre, Zeros(0), Zeros(1)} :
                    m_model' = [m_model EXCEPT !.outputTensorValuesPre = cache]
              /\ hist' = [hist EXCEPT !.tainted = TRUE]
    /\ UNCHANGED <<models, twin, threads, prompt, loc, runs>>

\* faulty variant: the embedding buffer is released before the checks
LoadImageRejectClears ==
    /\ pc = "idle"
    /\ Len(m_model.inputShapePre) >= 4
    /\ \E img \in Images :
        /\ ValidateImage(m_model, img) # "ok"
        /\ image' = img
    /\ m_model' = [m_model EXCEPT !.outputTensorValuesPre = <<>>]
    /\ ret' = Returned("loadImage", "false")
    /\ pc' = "returned"
    /\ hist' = [hist EXCEPT !.rejected = TRUE]
    /\ UNCHANGED <<models, twin, threads, prompt, loc, runs>>

\* lines 63-70: the image fails a check, loadImage returns false
LoadImageReject ==
    /\ pc = "idle"
    /\ Len(m_model.inputShapePre) >= 4
    /\ \E img \in Images :
        /\ ValidateImage(m_model, img) # "ok"
        /\ image' = img
    /\ ret' = Returned("loadImage", "false")
    /\ pc' = "returned"
    /\ hist' = [hist EXCEPT !.rejected = TRUE]
    /\ UNCHANGED <<models, twin, threads, m_model, prompt, loc, runs>>

\* lines 72-97: the input tensor is built and the embedding buffer is
\* replaced by a zero-filled vector of the output shape's size
LoadImageBegin ==
    /\ pc = "idle"
    /\ Len(m_model.inputShapePre) >= 4
    /\ Len(m_model.outputShapePre) >= 4
    /\ \E img \in Images :
        /\ ValidateImage(m_model, img) = "ok"
        /\ image' = img
        /\ loc' = [NoLoc EXCEPT !.inputTensorValuesFloat =
                                    Preprocess(img, m_model.inputShapePre)]
    /\ m_model' = LoadImageAlloc(m_model)
    /\ hist' = [hist EXCEPT !.tainted = TRUE]
    /\ pc' = "li_run"
    /\ UNCHANGED <<models, twin, threads, prompt, ret, runs>>

\* faulty variant: a Run that throws is caught and tried again
LoadImageRunRetries ==
    /\ pc = "li_run"
    /\ runs' = [runs EXCEPT !.pre = @ + 1]
    /\ \/ /\ m_model' = LoadImageStore(m_model, loc.inputTensorValuesFloat)
          /\ ret' = Returned("loadImage", "true")
          /\ hist' = [lastOk |-> image, prevOk |-> hist.lastOk,
                      tainted |-> FALSE, rejected |-> FALSE]
          /\ pc' = "returned"
       \/ /\ \E n \in 0..(Product(m_model.outputShapePre) - 1) :
                m_model' = LoadImageStorePartial(m_model, loc.inputTensorValuesFloat, n)
          /\ pc' = "li_run"
          /\ UNCHANGED <<ret, hist>>
    /\ UNCHANGED <<models, twin, threads, image, prompt, loc>>

\* lines 99-104: sessionPre->Run writes into the embedding buffer; when it
\* throws, the exception leaves loadImage with whatever was written so far
LoadImageRun ==
    /\ pc = "li_run"
    /\ runs' = [runs EXCEPT !.pre = @ + 1]
    /\ \/ /\ m_model' = LoadImageStore(m_model, loc.inputTensorValuesFloat)
          /\ ret' = Returned("loadImage", "true")
          /\ hist' = [lastOk |-> image, prevOk |-> hist.lastOk,
                      tainted |-> FALSE, rejected |-> FALSE]
       \/ /\ \E n \in 0..(Product(m_model.outputShapePre) - 1) :
                m_model' = LoadImageStorePartial(m_model, loc.inputTensorValuesFloat, n)
          /\ ret' = Returned("loadImage", "exception")
          /\ UNCHANGED hist
    /\ pc' = "returned"
    /\ UNCHANGED <<models, twin, threads, image, prompt, loc>>

(***************************************************************************)
(* SamModel::getMask and Sam::getMask                                      *)
(***************************************************************************)
\* line 16: the names the decoder's inputs are passed under
inputNamesEdgeSam == <<"image_embeddings", "point_coords", "point_labels">>

\* faulty variant: the coordinate tensor is declared as 1 x 2 x N
InputTensorsSamCoordsTransposed(m, l) ==
    LET numPoints == Len(l.inputLabelValues)
    IN  << [name |-> inputNamesEdgeSam[1], shape |-> m.outputShapePre,
            data |-> m.outputTensorValuesPre],
           [name |-> inputNamesEdgeSam[2], shape |-> <<1, 2, numPoints>>,
            data |-> SubSeq(l.inputPointValues, 1, 2 * numPoints)],
           [name |-> inputNamesEdgeSam[3], shape |-> <<1, numPoints>>,
            data |-> SubSeq(l.inputLabelValues, 1, numPoints)] >>

\* faulty variant: the image size prepared at line 112 is passed as a fourth
\* input
InputTensorsSamWithOrigSize(m, l) ==
    LET numPoints == Len(l.inputLabelValues)
    IN  << [name |-> inputNamesEdgeSam[1], shape |-> m.outputShapePre,
            data |-> m.outputTensorValuesPre],
           [name |-> inputNamesEdgeSam[2], shape |-> <<1, numPoints, 2>>,
            data |-> SubSeq(l.inputPointValues, 1, 2 * numPoints)],
           [name |-> inputNamesEdgeSam[3], shape |-> <<1, numPoints>>,
            data |-> SubSeq(l.inputLabelValues, 1, numPoints)],
           [name |-> "orig_im_size", shape |-> <<2>>,
            data |-> l.orig_im_size_values] >>

\* lines 136-157: inputTensorsSam, the tensors handed to sessionSam->Run.
\* The first one is a view of the embedding buffer, read when Run executes.
InputTensorsSam(m, l) ==
    LET numPoints == Len(l.inputLabelValues)
    IN  << [name |-> inputNamesEdgeSam[1], shape |-> m.outputShapePre,
            data |-> m.outputTensorValuesPre],
           [name |-> inputNamesEdgeSam[2], shape |-> <<1, numPoints, 2>>,
            data |-> SubSeq(l.inputPointValues, 1, 2 * numPoints)],
           [name |-> inputNamesEdgeSam[3], shape |-> <<1, numPoints>>,
            data |-> SubSeq(l.inputLabelValues, 1, numPoints)] >>

\* lines 115-134 as locals of the call
Encoded(p) ==
    [NoLoc EXCEPT
       !.inputPointValues =
           EncodePrompt(p.points, p.negativePoints, p.roi).inputPointValues,
       !.inputLabelValues =
           EncodePrompt(p.points, p.negativePoints, p.roi).inputLabelValues]

\* lines 141-144: CreateTensor accepts the embedding buffer only when it
\* holds at least as many elements as outputShapePre asks for
BufferFits(m) == Len(m.outputTensorValuesPre) >= Product(m.outputShapePre)

\* line 109
maskInputSize == 256 * 256

\* faulty variant: the mask is allocated with the arguments of cv::Mat in
\* the order of a cv::Size (width, height)
GetMaskLocalsTransposed(m, p) ==
    [Encoded(p) EXCEPT
        !.maskInputValues = [size |-> maskInputSize, fill |-> 0],
        !.hasMaskValues = <<0>>,
        !.orig_im_size_values = <<ToFloat(m.inputShapePre[3]), ToFloat(m.inputShapePre[4])>>,
        !.outputMaskSam =
            [rows |-> m.inputShapePre[4], cols |-> m.inputShapePre[3], data |-> <<>>,
             type |-> "CV_8UC1"]]

\* lines 109-162: the locals once the prompt is encoded and the output mask
\* is allocated (its pixels are not yet written).  maskInputValues is an
\* array of maskInputSize floats all set to fill; it is kept as the pair.
GetMaskLocals(m, p) ==
    [Encoded(p) EXCEPT
        !.maskInputValues = [size |-> maskInputSize, fill |-> 0],
        !.hasMaskValues = <<0>>,
        !.orig_im_size_values = <<ToFloat(m.inputShapePre[3]), ToFloat(m.inputShapePre[4])>>,
        !.outputMaskSam =
            [rows |-> m.inputShapePre[3], cols |-> m.inputShapePre[4], data |-> <<>>,
             type |-> "CV_8UC1"]]

\* lines 164-172: Run, and outputMaskImage wrapped around the "masks" output
GetMaskDecode(m, l, maskShape) ==
    LET in == InputTensorsSam(m, l)
        out == RunSam(in[1].data, in[2].data, in[3].data, maskShape)
    IN  [l EXCEPT !.scores = out.scores,
                  !.outputMaskImage = [rows |-> maskShape[3], cols |-> maskShape[4],
                                       data |-> out.masks]]

\* faulty variant: the logits are made binary before they are resized
GetMaskResizedAfterThreshold(l) ==
    LET binary == [l.outputMaskImage EXCEPT !.data =
                      [k \in 1..Len(l.outputMaskImage.data) |->
                          IF l.outputMaskImage.data[k][1] > 0
                          THEN <<255, 1>> ELSE <<0, 1>>]]
    IN  IF MatSize(l.outputMaskImage) # MatSize(l.outputMaskSam)
        THEN [l EXCEPT !.outputMaskImage = Resize(binary, MatSize(l.outputMaskSam)),
                       !.resized = TRUE]
        ELSE l

\* lines 174-176: the float image is resized when its size is not the mask's
GetMaskResized(l) ==
    IF MatSize(l.outputMaskImage) # MatSize(l.outputMaskSam)
    THEN [l EXCEPT !.outputMaskImage = Resize(l.outputMaskImage, MatSize(l.outputMaskSam)),
                   !.resized = TRUE]
    ELSE l

\* lines 178-182: the mask pixels are written
GetMaskThresholded(l) ==
    [l EXCEPT !.outputMaskSam = Threshold(l.outputMaskImage, l.outputMaskSam)]

\* faulty variant: the score is clamped to [0, 1] before it is stored
GetMaskResultClamped(l, p) ==
    [Returned("getMask", "mask") EXCEPT
        !.mask = l.outputMaskSam,
        !.iou = IF p.iou # "null"
                THEN (IF l.scores[1][1] < 0 THEN <<0, l.scores[1][2]>>
                      ELSE IF l.scores[1][1] > l.scores[1][2]
                      THEN <<l.scores[1][2], l.scores[1][2]>>
                      ELSE l.scores[1])
                ELSE <<>>]

\* lines 184 and 205-211: iouValue is the first score; Sam::getMask stores
\* it through iou when iou is not null and returns the mask
GetMaskResult(l, p) ==
    [Returned("getMask", "mask") EXCEPT
        !.mask = l.outputMaskSam,
        !.iou = IF p.iou # "null" THEN l.scores[1] ELSE <<>>]

\* line 112 reads inputShapePre[2] and [3] of a vector that has no such
\* elements: undefined behaviour; the build may crash or go on with garbage
\* until CreateTensor throws.
GetMaskOutOfRange ==
    /\ pc = "idle"
    /\ Len(m_model.inputShapePre) < 4
    /\ \E p \in Prompts : prompt' = p
    /\ \/ /\ pc' = "crashed"
          /\ ret' = Returned("getMask", "crash")
       \/ /\ pc' = "returned"
          /\ ret' = Returned("getMask", "exception")
    /\ UNCHANGED <<models, twin, threads, m_model, image, loc, runs, hist>>

\* lines 141-144: Ort::Value::CreateTensor over an embedding buffer that is
\* shorter than outputShapePre requires throws; nothing catches it
GetMaskNoBuffer ==
    /\ pc = "idle"
    /\ Len(m_model.inputShapePre) >= 4
    /\ ~BufferFits(m_model)
    /\ \E p \in Prompts :
        /\ prompt' = p
        /\ loc' = Encoded(p)
    /\ ret' = Returned("getMask", "exception")
    /\ pc' = "returned"
    /\ UNCHANGED <<models, twin, threads, m_model, image, runs, hist>>

\* faulty variant: getMask runs the embedding model again before decoding
GetMaskBeginReencodes ==
    /\ pc = "idle"
    /\ Len(m_model.inputShapePre) >= 4
    /\ BufferFits(m_model)
    /\ \E p \in Prompts :
        /\ prompt' = p
        /\ loc' = GetMaskLocals(m_model, p)
    /\ runs' = [runs EXCEPT !.pre = @ + 1]
    /\ pc' = "gm_run"
    /\ UNCHANGED <<models, twin, threads, m_model, image, ret, hist>>

\* faulty variant: a prompt that encodes to no entry is turned down
GetMaskBeginRejectsEmpty ==
    /\ pc = "idle"
    /\ Len(m_model.inputShapePre) >= 4
    /\ BufferFits(m_model)
    /\ \E p \in Prompts :
        /\ prompt' = p
        /\ loc' = GetMaskLocals(m_model, p)
        /\ IF loc'.inputLabelValues = <<>>
           THEN pc' = "returned" /\ ret' = Returned("getMask", "exception")
           ELSE pc' = "gm_run" /\ UNCHANGED ret
    /\ UNCHANGED <<models, twin, threads, m_model, image, runs, hist>>

\* lines 109-162
GetMaskBegin ==
    /\ pc = "idle"
    /\ Len(m_model.inputShapePre) >= 4
    /\ BufferFits(m_model)
    /\ \E p \in Prompts :
        /\ prompt' = p
        /\ loc' = GetMaskLocals(m_model, p)
    /\ pc' = "gm_run"
    /\ UNCHANGED <<models, twin, threads, m_model, image, ret, runs, hist>>

\* faulty variant: the embedding buffer is handed over to the decoder and
\* is empty afterwards
GetMaskRunReleasesCache ==
    /\ pc = "gm_run"
    /\ runs' = [runs EXCEPT !.sam = @ + 1, !.samInputs = InputTensorsSam(m_model, loc)]
    /\ m_model' = [m_model EXCEPT !.outputTensorValuesPre = <<>>]
    /\ \/ /\ loc' = GetMaskDecode(m_model, loc, models.maskShape)
          /\ pc' = "gm_resize"
          /\ UNCHANGED ret
       \/ /\ ret' = Returned("getMask", "exception")
          /\ pc' = "returned"
          /\ UNCHANGED loc
    /\ UNCHANGED <<models, twin, threads, image, prompt, hist>>

\* lines 164-172: sessionSam->Run returns the outputs or throws
GetMaskRun ==
    /\ pc = "gm_run"
    /\ runs' = [runs EXCEPT !.sam = @ + 1, !.samInputs = InputTensorsSam(m_model, loc)]
    /\ \/ /\ loc' = GetMaskDecode(m_model, loc, models.maskShape)
          /\ pc' = "gm_resize"
          /\ UNCHANGED ret
       \/ /\ ret' = Returned("getMask", "exception")
          /\ pc' = "returned"
          /\ UNCHANGED loc
    /\ UNCHANGED <<models, twin, threads, m_model, image, prompt, hist>>

\* lines 174-176
GetMaskResize ==
    /\ pc = "gm_resize"
    /\ loc' = GetMaskResized(loc)
    /\ pc' = "gm_threshold"
    /\ UNCHANGED <<models, twin, threads, m_model, image, prompt, ret, runs, hist>>

\* lines 178-184 and 205-211: threshold, read the score, hand both back
GetMaskThreshold ==
    /\ pc = "gm_threshold"
    /\ loc' = GetMaskThresholded(loc)
    /\ ret' = GetMaskResult(GetMaskThresholded(loc), prompt)
    /\ pc' = "returned"
    /\ UNCHANGED <<models, twin, threads, m_model, image, prompt, runs, hist>>

Next ==
    \/ Construct
    \/ Continue
    \/ GetInputSize
    \/ LoadImageOutOfRange
    \/ LoadImageReject
    \/ LoadImageBegin
    \/ LoadImageRun
    \/ GetMaskOutOfRange
    \/ GetMaskNoBuffer
    \/ GetMaskBegin
    \/ GetMaskRun
    \/ GetMaskResize
    \/ GetMaskThreshold

Spec == Init /\ [][Next]_vars

(***************************************************************************)
(* Two sessions side by side: session 1 is fresh, it is given one image    *)
(* and then asked for masks; session 2 is called in any order.  Each call  *)
(* runs to completion, as the caller sees it; the runtime is the same      *)
(* function for both.                                                      *)
(***************************************************************************)
\* faulty variant: an embedding already in the buffer is taken for the
\* image's and the encoder is not run again
loadImageKeepsFilledBuffer(m, img, written) ==
    IF ValidateImage(m, img) # "ok"
    THEN [m |-> m, ret |-> Returned("loadImage", "false")]
    ELSE IF m.outputTensorValuesPre # <<>>
              /\ m.outputTensorValuesPre # Zeros(Len(m.outputTensorValuesPre))
    THEN [m |-> m, ret |-> Returned("loadImage", "true")]
    ELSE IF written = Product(m.outputShapePre)
    THEN [m |-> LoadImageStore(LoadImageAlloc(m), Preprocess(img, m.inputShapePre)),
          ret |-> Returned("loadImage", "true")]
    ELSE [m |-> LoadImageStorePartial(LoadImageAlloc(m),
                                      Preprocess(img, m.inputShapePre), written),
          ret |-> Returned("loadImage", "exception")]

\* SamModel::loadImage from entry to exit on a session with rank-4 shapes;
\* written is the number of elements Run wrote, all of them when it returned
loadImage(m, img, written) ==
    IF ValidateImage(m, img) # "ok"
    THEN [m |-> m, ret |-> Returned("loadImage", "false")]
    ELSE IF written = Product(m.outputShapePre)
    THEN [m |-> LoadImageStore(LoadImageAlloc(m), Preprocess(img, m.inputShapePre)),
          ret |-> Returned("loadImage", "true")]
    ELSE [m |-> LoadImageStorePartial(LoadImageAlloc(m),
                                      Preprocess(img, m.inputShapePre), written),
          ret |-> Returned("loadImage", "exception")]

\* Sam::getMask from entry to exit on a session with rank-4 shapes, the
\* decoder's Run returning normally
getMask(m, p, maskShape) ==
    IF ~BufferFits(m) THEN Returned("getMask", "exception")
    ELSE GetMaskResult(
           GetMaskThresholded(
             GetMaskResized(
               GetMaskDecode(m, GetMaskLocals(m, p), maskShape))),
           p)

TwinPrompts ==
    { p \in Prompts : /\ p.points \in {<<>>, <<[x |-> 1, y |-> 0]>>}
                      /\ p.negativePoints = <<>>
                      /\ p.roi.x = 0 /\ p.roi.y = 0 /\ p.roi.width \in {0, 2}
                      /\ p.iou = "ptr"
                      /\ p.call.form = "roi" }

SessionOf(s) == IF s = 1 THEN m_model ELSE twin.m

InitTwin ==
    /\ models \in { p \in ModelPairs : ValidPair(p) }
    /\ m_model = SamModelCtor(models)
    /\ twin = [NoTwin EXCEPT !.m = SamModelCtor(models)]
    /\ threads = NoThreads
    /\ pc = "twin"
    /\ image = NoImage
    /\ prompt = NoPrompt
    /\ loc = NoLoc
    /\ ret = NoRet
    /\ runs = NoRuns
    /\ hist = NoHist

\* one of the sessions is given an image
TwinLoadImage ==
    /\ pc = "twin"
    /\ \E s \in 1..2, img \in Images, written \in 0..Product(models.preOutShape) :
         LET out == loadImage(SessionOf(s), img, written)
             h == twin.h[s]
             after == IF out.ret.kind = "true"
                      THEN [lastOk |-> img, prevOk |-> h.lastOk,
                            tainted |-> FALSE, rejected |-> FALSE]
                      ELSE IF out.ret.kind = "false" THEN h
                      ELSE [h EXCEPT !.tainted = TRUE]
         IN  /\ s = 1 => (twin.h[1].lastOk = NoImage /\ out.ret.kind = "true")
             /\ m_model' = (IF s = 1 THEN out.m ELSE m_model)
             /\ twin' = [twin EXCEPT !.m = IF s = 2 THEN out.m ELSE @,
                                     !.h[s] = after,
                                     !.r[s] = NoTwinResult,
                                     !.first[s] = NoTwinResult]
    /\ UNCHANGED <<models, threads, pc, image, prompt, loc, ret, runs, hist>>

\* one of the sessions is asked for a mask
TwinGetMask ==
    /\ pc = "twin"
    /\ \E s \in 1..2, p \in TwinPrompts :
         LET res == [prompt |-> p,
                     ret |-> getMask(SessionOf(s), p, models.maskShape),
                     img |-> twin.h[s].lastOk,
                     tainted |-> twin.h[s].tainted]
         IN  twin' = [twin EXCEPT !.r[s] = res,
                                  !.first[s] = IF s = 2 /\ @.ret.op = "none"
                                               THEN res ELSE @]
    /\ UNCHANGED <<models, threads, m_model, pc, image, prompt, loc, ret, runs, hist>>

NextTwin ==
    \/ TwinLoadImage
    \/ TwinGetMask

SpecTwin == InitTwin /\ [][NextTwin]_vars

(***************************************************************************)
(* Two threads on one session, with nothing in SamModel or Sam to keep     *)
(* them apart: one calls loadImage (its position is pc), the other calls   *)
(* getMask (its position is threads.g.pc).  The embedding model's Run      *)
(* stores its output one element at a time; runtime failures are left to   *)
(* Spec.                                                                   *)
(***************************************************************************)
MaxLoads == 2           \* loadImage calls that get past the checks

InitThreads ==
    /\ models \in { p \in ModelPairs : ValidPair(p) }
    /\ m_model = SamModelCtor(models)
    /\ pc = "idle"
    /\ image = NoImage
    /\ prompt = NoPrompt
    /\ loc = NoLoc
    /\ ret = NoRet
    /\ runs = NoRuns
    /\ hist = NoHist
    /\ twin = NoTwin
    /\ threads = [NoThreads EXCEPT !.g.pc = "idle"]

\* lines 63-70
LoaderReject ==
    /\ pc = "idle"
    /\ \E img \in Images :
        /\ ValidateImage(m_model, img) # "ok"
        /\ image' = img
    /\ ret' = Returned("loadImage", "false")
    /\ pc' = "returned"
    /\ hist' = [hist EXCEPT !.rejected = TRUE]
    /\ UNCHANGED <<models, twin, threads, m_model, prompt, loc, runs>>

\* lines 72-97: the assignment of line 93 gives the vector a new block and
\* frees the one it had
LoaderBegin ==
    /\ pc = "idle"
    /\ threads.block < MaxLoads
    /\ \E img \in Images :
        /\ ValidateImage(m_model, img) = "ok"
        /\ image' = img
        /\ loc' = [NoLoc EXCEPT !.inputTensorValuesFloat =
                                    Preprocess(img, m_model.inputShapePre)]
    /\ m_model' = LoadImageAlloc(m_model)
    /\ threads' = [threads EXCEPT !.block = @ + 1, !.written = 0]
    /\ hist' = [hist EXCEPT !.tainted = TRUE]
    /\ pc' = "li_run"
    /\ UNCHANGED <<models, twin, prompt, ret, runs>>

\* lines 101-102: Run stores the next element of the embedding
LoaderWrite ==
    /\ pc = "li_run"
    /\ threads.written < Product(m_model.outputShapePre)
    /\ m_model' = LoadImageStorePartial(m_model, loc.inputTensorValuesFloat,
                                        threads.written + 1)
    /\ threads' = [threads EXCEPT !.written = @ + 1]
    /\ UNCHANGED <<models, twin, pc, image, prompt, loc, ret, runs, hist>>

\* lines 102-104: Run has stored every element and loadImage returns true
LoaderReturn ==
    /\ pc = "li_run"
    /\ threads.written = Product(m_model.outputShapePre)
    /\ runs' = [runs EXCEPT !.pre = @ + 1]
    /\ ret' = Returned("loadImage", "true")
    /\ hist' = [lastOk |-> image, prevOk |-> hist.lastOk,
                tainted |-> FALSE, rejected |-> FALSE]
    /\ pc' = "returned"
    /\ UNCHANGED <<models, twin, threads, m_model, image, prompt, loc>>

\* lines 109-162: the prompt is encoded and the image_embeddings tensor is
\* created over the block the embedding buffer is in at this moment
MaskerBegin ==
    /\ threads.g.pc = "idle"
    /\ \E p \in TwinPrompts :
         threads' = [threads EXCEPT !.g =
            IF BufferFits(m_model)
            THEN [NoMasker EXCEPT !.pc = "gm_run", !.prompt = p,
                                  !.loc = GetMaskLocals(m_model, p),
                                  !.view = threads.block]
            ELSE [NoMasker EXCEPT !.pc = "returned", !.prompt = p,
                                  !.ret = Returned("getMask", "exception")]]
    /\ UNCHANGED <<models, twin, m_model, pc, image, prompt, loc, ret, runs, hist>>

\* what the decoder's Run can read through the tensor: the buffer as it is
\* now when the block is still the vector's; when loadImage has replaced
\* the block since, the read is of freed memory and may give the old
\* contents, zeros, or whatever the vector now holds
MaskerReadable ==
    IF threads.g.view = threads.block
    THEN { m_model.outputTensorValuesPre }
    ELSE { m_model.outputTensorValuesPre,
           Zeros(Product(m_model.outputShapePre)) }
         \cup { RunPre(Preprocess(img, m_model.inputShapePre), m_model.outputShapePre) :
                  img \in { hist.lastOk, hist.prevOk } \ {NoImage} }

\* lines 164-172
MaskerRun ==
    /\ threads.g.pc = "gm_run"
    /\ \E data \in MaskerReadable :
         threads' = [threads EXCEPT
            !.g.loc = GetMaskDecode([m_model EXCEPT !.outputTensorValuesPre = data],
                                    threads.g.loc, models.maskShape),
            !.g.ran = TRUE,
            !.g.seen = data,
            !.g.pc = "gm_finish"]
    /\ UNCHANGED <<models, twin, m_model, pc, image, prompt, loc, ret, runs, hist>>

\* lines 164-166 reading a freed block: the process may be stopped
MaskerFault ==
    /\ threads.g.pc = "gm_run"
    /\ threads.g.view # threads.block
    /\ threads' = [threads EXCEPT !.g.pc = "crashed"]
    /\ pc' = "crashed"
    /\ UNCHANGED <<models, twin, m_model, image, prompt, loc, ret, runs, hist>>

\* lines 174-184 and 205-211
MaskerFinish ==
    /\ threads.g.pc = "gm_finish"
    /\ threads' = [threads EXCEPT
          !.g.loc = GetMaskThresholded(GetMaskResized(threads.g.loc)),
          !.g.ret = GetMaskResult(GetMaskThresholded(GetMaskResized(threads.g.loc)),
                                  threads.g.prompt),
          !.g.pc = "returned"]
    /\ UNCHANGED <<models, twin, m_model, pc, image, prompt, loc, ret, runs, hist>>

\* the caller of getMask takes the result and goes on
MaskerContinue ==
    /\ threads.g.pc = "returned"
    /\ threads' = [threads EXCEPT !.g = [NoMasker EXCEPT !.pc = "idle"]]
    /\ UNCHANGED <<models, twin, m_model, pc, image, prompt, loc, ret, runs, hist>>

NextThreads ==
    \/ LoaderReject
    \/ LoaderBegin
    \/ LoaderWrite
    \/ LoaderReturn
    \/ Continue
    \/ MaskerBegin
    \/ MaskerRun
    \/ MaskerFault
    \/ MaskerFinish
    \/ MaskerContinue

SpecThreads == InitThreads /\ [][NextThreads]_vars

(***************************************************************************)
(* The input tensor of loadImage on its own: a session whose embedding     *)
(* model takes H x W images is given a 3-channel image of that size, and   *)
(* lines 72-87 build the tensor.                                           *)
(***************************************************************************)
MaxSide == 3            \* largest image height and width

\* 3-channel images of every size up to MaxSide, with pixel bytes that
\* differ from place to place
PreImages ==
    { [rows |-> h, cols |-> w, channels |-> 3,
       data |-> [k \in 1..(3 * h * w) |-> (k * step + o) % 256]] :
         h \in 1..MaxSide, w \in 1..MaxSide, step \in {1, 7}, o \in {0, 100, 200, 250} }

InitPreprocess ==
    /\ image \in PreImages
    /\ models = [exists |-> [f \in 0..1 |-> TRUE],
                 preInputs |-> 1, preOutputs |-> 1, samInputs |-> 3,
                 preInShape |-> <<1, 3, image.rows, image.cols>>,
                 preOutShape |-> <<1, 1, 1, 2>>,
                 maskShape |-> <<1, 1, 1, 2>>]
    /\ m_model = SamModelCtor(models)
    /\ pc = "idle"
    /\ prompt = NoPrompt
    /\ loc = NoLoc
    /\ ret = NoRet
    /\ runs = NoRuns
    /\ hist = NoHist
    /\ twin = NoTwin
    /\ threads = NoThreads

\* lines 63-97 for the image at hand
BuildInputTensor ==
    /\ pc = "idle"
    /\ ValidateImage(m_model, image) = "ok"
    /\ loc' = [NoLoc EXCEPT !.inputTensorValuesFloat =
                                Preprocess(image, m_model.inputShapePre)]
    /\ m_model' = LoadImageAlloc(m_model)
    /\ hist' = [hist EXCEPT !.tainted = TRUE]
    /\ pc' = "li_run"
    /\ UNCHANGED <<models, twin, threads, image, prompt, ret, runs>>

NextPreprocess ==
    \/ BuildInputTensor
    \/ LoadImageRun
    \/ Continue

SpecPreprocess == InitPreprocess /\ [][NextPreprocess]_vars

(***************************************************************************)
(* Properties.                                                             *)
(***************************************************************************)
\* the embedding the encoder model computes for an image, from the shapes
\* the model file declares
EmbeddingOf(img) == RunPre(Preprocess(img, models.preInShape), models.preOutShape)

\* the call that has just returned
Back(op, kind) == pc = "returned" /\ ret.op = op /\ ret.kind = kind

\* a getMask call has got as far as encoding its prompt
PromptEncoded ==
    \/ pc \in {"gm_run", "gm_resize", "gm_threshold"}
    \/ pc = "returned" /\ ret.op = "getMask" /\ ret.kind \in {"mask", "exception"}
         /\ Len(m_model.inputShapePre) >= 4

\* C1: once loadImage(A) has returned true, loadImage calls that fail the
\* size or the channel check leave the embedding buffer equal to A's
\* embedding, and the decoder of every later getMask is given A's embedding.
C1_RejectedLoadKeepsEmbedding ==
    (hist.lastOk # NoImage /\ hist.rejected /\ ~hist.tainted) =>
        /\ m_model.outputTensorValuesPre = EmbeddingOf(hist.lastOk)
        /\ runs.sam > 0 => runs.samInputs[1].data = EmbeddingOf(hist.lastOk)

C1_Witness ==
    /\ Back("getMask", "mask")
    /\ hist.lastOk = ImageA /\ hist.rejected /\ ~hist.tainted
    /\ runs.sam = 1
    /\ runs.samInputs[1].data # Zeros(Len(runs.samInputs[1].data))

\* C2: getMask on a ready session whose embedding buffer was never filled
\* returns a "no image loaded" error to the caller, without running the
\* decoder, without an exception and without a mask.
C2_NoImageLoadedIsAnError ==
    ( /\ pc = "returned" /\ ret.op = "getMask"
      /\ m_model.bModelLoaded
      /\ hist.lastOk = NoImage
      /\ m_model.outputTensorValuesPre = <<>> ) =>
        /\ ret.kind = "error"
        /\ runs.sam = 0

\* C3: after loadImage(A) and then loadImage(B) have both returned true,
\* the embedding given to the decoder is B's encoder output in every
\* element.
C3_EmbeddingReplaced ==
    ( /\ runs.sam > 0
      /\ hist.prevOk # NoImage /\ hist.lastOk # NoImage /\ ~hist.tainted ) =>
        /\ Len(runs.samInputs[1].data) = Len(EmbeddingOf(hist.lastOk))
        /\ \A k \in 1..Len(runs.samInputs[1].data) :
               runs.samInputs[1].data[k] = EmbeddingOf(hist.lastOk)[k]

C3_Witness ==
    /\ Back("getMask", "mask")
    /\ hist.prevOk = ImageA /\ hist.lastOk = ImageB /\ ~hist.tainted
    /\ runs.sam = 1
    /\ \A k \in 1..Len(EmbeddingOf(ImageA)) :
           /\ EmbeddingOf(ImageA)[k] # EmbeddingOf(ImageB)[k]
           /\ runs.samInputs[1].data[k] # EmbeddingOf(ImageA)[k]

\* the arrays a prompt is to be encoded as: entry k of the labels and the
\* pair k of the coordinates, by position
BoxPresent(p) == p.roi.width > 0 /\ p.roi.height > 0

EntryCount(p) ==
    Len(p.points) + Len(p.negativePoints) + (IF BoxPresent(p) THEN 2 ELSE 0)

EntryLabel(p, k) ==
    IF k <= Len(p.points) THEN 1
    ELSE IF k <= Len(p.points) + Len(p.negativePoints) THEN 0
    ELSE IF k = Len(p.points) + Len(p.negativePoints) + 1 THEN 2
    ELSE 3

EntryPoint(p, k) ==
    IF k <= Len(p.points) THEN p.points[k]
    ELSE IF k <= Len(p.points) + Len(p.negativePoints)
    THEN p.negativePoints[k - Len(p.points)]
    ELSE IF k = Len(p.points) + Len(p.negativePoints) + 1
    THEN [x |-> p.roi.x, y |-> p.roi.y]
    ELSE [x |-> p.roi.x + p.roi.width, y |-> p.roi.y + p.roi.height]

\* C4: the encoded arrays hold the positive points in input order, then the
\* negative points in input order, then the box's top-left and bottom-right
\* corners, labelled 1, 0, 2 and 3 (a box is present when the cv::Rect is
\* not empty); 2 positive points, 1 negative point and a box give the
\* labels <<1, 1, 0, 2, 3>>.
C4_LabelOrder ==
    PromptEncoded =>
        /\ Len(loc.inputLabelValues) = EntryCount(prompt)
        /\ Len(loc.inputPointValues) = 2 * EntryCount(prompt)
        /\ \A k \in 1..EntryCount(prompt) :
              /\ loc.inputLabelValues[k] = EntryLabel(prompt, k)
              /\ loc.inputPointValues[2 * k - 1] = ToFloat(EntryPoint(prompt, k).x)
              /\ loc.inputPointValues[2 * k] = ToFloat(EntryPoint(prompt, k).y)
        /\ ( /\ Len(prompt.points) = 2 /\ Len(prompt.negativePoints) = 1
             /\ BoxPresent(prompt) ) => loc.inputLabelValues = <<1, 1, 0, 2, 3>>
        /\ runs.sam > 0 =>
              /\ runs.samInputs[2].data = loc.inputPointValues
              /\ runs.samInputs[3].data = loc.inputLabelValues

C4_Witness ==
    /\ Back("getMask", "mask")
    /\ Len(prompt.points) = 2 /\ prompt.points[1] # prompt.points[2]
    /\ Len(prompt.negativePoints) = 1
    /\ BoxPresent(prompt)
    /\ runs.samInputs[3].data = <<1, 1, 0, 2, 3>>

BoxEntries(p) ==
    LET n == Len(loc.inputLabelValues)
    IN  /\ n = Len(p.points) + Len(p.negativePoints) + 2
        /\ Len(loc.inputPointValues) = 2 * n
        /\ loc.inputLabelValues[n - 1] = 2
        /\ loc.inputLabelValues[n] = 3
        /\ SubSeq(loc.inputPointValues, 2 * n - 3, 2 * n) =
              << ToFloat(p.roi.x), ToFloat(p.roi.y),
                 ToFloat(p.roi.x + p.roi.width), ToFloat(p.roi.y + p.roi.height) >>

\* C5 as stated: every box the caller supplies, zero-width and zero-height
\* ones included, is encoded as two entries labelled 2 and 3 holding its
\* corners.
C5_EveryBoxEncoded ==
    (PromptEncoded /\ prompt.roi # DefaultRect) => BoxEntries(prompt)

\* C5 as amended: a box of positive width and height is encoded as two
\* entries labelled 2 and 3 holding its corners (x, y) and (x + width,
\* y + height) cast to float; a box whose width or height is zero or
\* negative is treated as absent and adds no entry.
C5_NonEmptyBoxEncoded ==
    PromptEncoded =>
        /\ BoxPresent(prompt) => BoxEntries(prompt)
        /\ ~BoxPresent(prompt) =>
              /\ Len(loc.inputLabelValues) = Len(prompt.points) + Len(prompt.negativePoints)
              /\ Len(loc.inputPointValues) = 2 * Len(loc.inputLabelValues)
              /\ \A k \in 1..Len(loc.inputLabelValues) : loc.inputLabelValues[k] \in {0, 1}

C5_Witness ==
    /\ Back("getMask", "mask")
    /\ prompt.roi = [x |-> BigCoord, y |-> 0, width |-> 2, height |-> 1]
    /\ prompt.points = <<>> /\ prompt.negativePoints = <<>>
    /\ runs.samInputs[2].data = <<2^24, 0, 2^24 + 4, 1>>
    /\ runs.samInputs[3].data = <<2, 3>>

\* C6: an output pixel is 255 exactly when the (resized) decoder logit at
\* that pixel is greater than 0 and is 0 otherwise; the logit compared is
\* the decoder's own value; logits -1 and +1 give 0 and 255.
C6_ThresholdAtZero ==
    Back("getMask", "mask") =>
        /\ Len(ret.mask.data) = Len(loc.outputMaskImage.data)
        /\ \A k \in 1..Len(ret.mask.data) :
              LET v == loc.outputMaskImage.data[k]
              IN  /\ v[2] > 0
                  /\ ret.mask.data[k] = 255 <=> v[1] > 0
                  /\ ret.mask.data[k] = 0 <=> v[1] <= 0
                  /\ v[1] = -v[2] => ret.mask.data[k] = 0
                  /\ v[1] = v[2] => ret.mask.data[k] = 255
        /\ ~loc.resized =>
              loc.outputMaskImage.data =
                 RunSam(runs.samInputs[1].data, runs.samInputs[2].data,
                        runs.samInputs[3].data, models.maskShape).masks

C6_Witness ==
    /\ Back("getMask", "mask")
    /\ \E k \in 1..Len(ret.mask.data) :
          loc.outputMaskImage.data[k] = <<-1, 1>> /\ ret.mask.data[k] = 0
    /\ \E k \in 1..Len(ret.mask.data) :
          loc.outputMaskImage.data[k] = <<1, 1>> /\ ret.mask.data[k] = 255

C6_WitnessZeroLogit ==
    /\ Back("getMask", "mask")
    /\ \E k \in 1..Len(ret.mask.data) :
          loc.outputMaskImage.data[k][1] = 0 /\ ret.mask.data[k] = 0

\* the size of the loaded image, which the mask is given
ImageSize == <<models.preInShape[4], models.preInShape[3]>>

\* C7: in a getMask call the decoder runs first, then the float logits are
\* resized to the image size, if and only if their size differs from it,
\* and only then are they thresholded; the mask pixels are written by the
\* threshold step alone and nothing is resized after it.
C7_ResizeBeforeThreshold ==
    [][ /\ (pc = "gm_run" /\ pc' # pc) =>
              /\ runs'.sam = runs.sam + 1
              /\ pc' \in {"gm_resize", "returned"}
              /\ pc' = "gm_resize" =>
                    /\ loc'.outputMaskImage.data =
                          RunSam(runs'.samInputs[1].data, runs'.samInputs[2].data,
                                 runs'.samInputs[3].data, models.maskShape).masks
                    /\ loc'.outputMaskSam.data = <<>>
        /\ (pc = "gm_resize" /\ pc' # pc) =>
              /\ pc' = "gm_threshold"
              /\ loc'.resized <=> MatSize(loc.outputMaskImage) # ImageSize
              /\ loc'.outputMaskImage =
                    IF MatSize(loc.outputMaskImage) # ImageSize
                    THEN Resize(loc.outputMaskImage, ImageSize)
                    ELSE loc.outputMaskImage
              /\ loc'.outputMaskSam.data = <<>>
              /\ runs' = runs
        /\ (pc = "gm_threshold" /\ pc' # pc) =>
              /\ pc' = "returned"
              /\ loc'.outputMaskImage = loc.outputMaskImage
              /\ MatSize(loc.outputMaskImage) = ImageSize
              /\ runs' = runs
        /\ (pc' = "gm_resize" /\ pc # pc') => pc = "gm_run"
        /\ (pc' = "gm_threshold" /\ pc # pc') => pc = "gm_resize"
        /\ (loc'.outputMaskSam.data # <<>> /\ loc.outputMaskSam.data = <<>>) =>
              pc = "gm_threshold"
        /\ (ret'.kind = "mask" /\ ret.kind # "mask") => pc = "gm_threshold"
      ]_vars

\* a call in which resizing first and thresholding first give different masks
C7_Witness ==
    /\ Back("getMask", "mask")
    /\ loc.resized
    /\ models.maskShape = <<1, 1, 1, 4>>
    /\ \E k \in 1..Len(ret.mask.data) :
          LET in == RunSam(runs.samInputs[1].data, runs.samInputs[2].data,
                           runs.samInputs[3].data, models.maskShape).masks
          IN  /\ ret.mask.data[k] = 0
              /\ in[2 * k - 1][1] > 0 \/ in[2 * k][1] > 0

\* C8: on a ready session getInputSize returns (dimension 3, dimension 2)
\* of the embedding model's declared input shape; loadImage returns true
\* only for an image of exactly that width and height, and an image of any
\* other size is turned down without the embedding model being run.
C8_ShapeContract ==
    /\ (Back("getInputSize", "size") /\ m_model.bModelLoaded) =>
           /\ Len(models.preInShape) = 4
           /\ ret.size = <<models.preInShape[4], models.preInShape[3]>>
    /\ (Back("loadImage", "true") /\ m_model.bModelLoaded) =>
           /\ image.cols = models.preInShape[4]
           /\ image.rows = models.preInShape[3]
    /\ ( /\ pc = "returned" /\ ret.op = "loadImage" /\ m_model.bModelLoaded
         /\ <<image.cols, image.rows>> # <<models.preInShape[4], models.preInShape[3]>> ) =>
           /\ ret.kind = "false"
           /\ runs.pre = 0
           /\ hist.rejected

C8_Witness ==
    /\ Back("loadImage", "false")
    /\ m_model.bModelLoaded
    /\ image = ImageTall
    /\ models.preInShape = <<1, 3, 1, 2>>

C8_WitnessSize ==
    /\ Back("getInputSize", "size")
    /\ m_model.bModelLoaded
    /\ ret.size = <<2, 1>>

\* C9: when the model pair fails any of the constructor's checks (a file
\* missing, the embedding model not having 1 input and 1 output, the
\* decoder not having 3 inputs, a shape not of rank 4) the session is left
\* not ready: bModelLoaded is false and getInputSize returns (0, 0); after
\* construction the flag and the two handles never change.
C9_FailedLoadNotReady ==
    /\ []( (pc # "new" /\ ~ValidPair(models)) =>
              /\ ~m_model.bModelLoaded
              /\ Back("getInputSize", "size") => ret.size = <<0, 0>> )
    /\ [][ pc # "new" =>
              /\ m_model'.bModelLoaded = m_model.bModelLoaded
              /\ m_model'.sessionPre = m_model.sessionPre
              /\ m_model'.sessionSam = m_model.sessionSam ]_vars

C9_Witness ==
    /\ Back("getInputSize", "size")
    /\ ret.size = <<0, 0>>
    /\ models.exists[0] /\ models.exists[1]
    /\ models.preInputs = 1 /\ models.preOutputs = 1 /\ models.samInputs = 3
    /\ Len(models.preInShape) = 4
    /\ Len(models.preOutShape) = 3

\* C10: two sessions that have last loaded the same image successfully
\* and are then asked for a mask with the same prompt give back the same
\* mask and the same IoU, whatever else each did before; and within one
\* session (here session 2), a getMask repeating the prompt of an earlier
\* getMask, with no loadImage call in between, gives back what the earlier
\* call gave.
C10_Deterministic ==
    /\ ( /\ twin.r[1].ret.kind = "mask" /\ twin.r[2].ret.kind = "mask"
         /\ twin.r[1].prompt = twin.r[2].prompt
         /\ twin.r[1].img = twin.r[2].img
         /\ ~twin.r[1].tainted /\ ~twin.r[2].tainted ) =>
           /\ twin.r[1].ret.mask = twin.r[2].ret.mask
           /\ twin.r[1].ret.iou = twin.r[2].ret.iou
    /\ \A s \in 1..2 :
         (twin.first[s].ret.op # "none" /\ twin.r[s].prompt = twin.first[s].prompt) =>
             twin.r[s].ret = twin.first[s].ret

\* the second session had loaded another image first, and the mask depends
\* on the image
C10_Witness ==
    /\ twin.r[1].ret.kind = "mask" /\ twin.r[2].ret.kind = "mask"
    /\ twin.r[1].prompt = twin.r[2].prompt
    /\ twin.r[1].img = ImageA /\ twin.r[2].img = ImageA
    /\ ~twin.r[1].tainted /\ ~twin.r[2].tainted
    /\ twin.h[1].prevOk = NoImage /\ twin.h[2].prevOk = ImageB
    /\ twin.first[2] # twin.r[2]
    /\ twin.r[1].ret.mask # getMask(
          LoadImageStore(twin.m, Preprocess(ImageB, twin.m.inputShapePre)),
          twin.r[1].prompt, models.maskShape).mask

\* C11: on a session that has loaded an image, getMask with no positive
\* point, no negative point and no box encodes the prompt as two empty
\* arrays, of shapes 1x0x2 and 1x0, and runs the decoder exactly once
\* with them; the call ends with a mask or with the decoder's failure.
C11_EmptyPromptRuns ==
    ( /\ pc = "returned" /\ ret.op = "getMask"
      /\ hist.lastOk # NoImage
      /\ prompt.points = <<>> /\ prompt.negativePoints = <<>>
      /\ prompt.roi = DefaultRect ) =>
        /\ runs.sam = 1
        /\ loc.inputPointValues = <<>> /\ loc.inputLabelValues = <<>>
        /\ runs.samInputs[2].shape = <<1, 0, 2>> /\ runs.samInputs[2].data = <<>>
        /\ runs.samInputs[3].shape = <<1, 0>> /\ runs.samInputs[3].data = <<>>
        /\ ret.kind \in {"mask", "exception"}

C11_Witness ==
    /\ Back("getMask", "mask")
    /\ hist.lastOk = ImageA
    /\ prompt.call.form = "points"
    /\ prompt.call.points = <<>> /\ prompt.call.negativePoints = <<>>
    /\ runs.sam = 1
    /\ runs.samInputs[2].shape = <<1, 0, 2>>
    /\ runs.samInputs[3].shape = <<1, 0>>
    /\ Len(ret.mask.data) = 2

\* C12 as stated: every decoder invocation is given six inputs: the
\* embedding, the point coordinates, the point labels, an all-zero 256x256
\* mask prior, a zero has-mask flag and the image size as a 2-element
\* vector.
C12_SixDecoderInputs ==
    runs.sam > 0 =>
        /\ Len(runs.samInputs) = 6
        /\ runs.samInputs[1].data = m_model.outputTensorValuesPre
        /\ runs.samInputs[2].data = loc.inputPointValues
        /\ runs.samInputs[3].data = loc.inputLabelValues
        /\ runs.samInputs[4].shape = <<1, 1, 256, 256>>
        /\ runs.samInputs[5].data = <<0>>
        /\ Len(runs.samInputs[6].data) = 2

\* C12 as amended: every decoder invocation is given exactly three inputs,
\* named image_embeddings, point_coords and point_labels: the embedding
\* buffer under the embedding model's output shape, the N coordinate pairs
\* (1xNx2) and the N labels (1xN); the zero mask prior, the zero has-mask
\* flag and the image size (height, width) are prepared as locals of the
\* call and are not among the inputs.
C12_ThreeDecoderInputs ==
    runs.sam > 0 =>
        /\ Len(runs.samInputs) = 3
        /\ [k \in 1..3 |-> runs.samInputs[k].name] =
               <<"image_embeddings", "point_coords", "point_labels">>
        /\ runs.samInputs[1].shape = models.preOutShape
        /\ runs.samInputs[1].data = m_model.outputTensorValuesPre
        /\ runs.samInputs[2].shape = <<1, Len(loc.inputLabelValues), 2>>
        /\ runs.samInputs[2].data = loc.inputPointValues
        /\ runs.samInputs[3].shape = <<1, Len(loc.inputLabelValues)>>
        /\ runs.samInputs[3].data = loc.inputLabelValues
        /\ loc.maskInputValues = [size |-> 65536, fill |-> 0]
        /\ loc.hasMaskValues = <<0>>
        /\ loc.orig_im_size_values = <<models.preInShape[3], models.preInShape[4]>>

C12_Witness ==
    /\ Back("getMask", "mask")
    /\ runs.sam = 1
    /\ Len(runs.samInputs) = 3
    /\ runs.samInputs[3].data = <<1, 0>>
    /\ loc.orig_im_size_values = <<1, 2>>
    /\ loc.hasMaskValues = <<0>>

\* C13: a mask returned by getMask on a session that has loaded an image
\* is a single-channel 8-bit image of the loaded image's width and height,
\* which is the model input size, with one value per pixel, each 0 or 255.
C13_MaskIsBinaryImage ==
    (Back("getMask", "mask") /\ hist.lastOk # NoImage) =>
        /\ ret.mask.type = "CV_8UC1"
        /\ ret.mask.cols = hist.lastOk.cols
        /\ ret.mask.rows = hist.lastOk.rows
        /\ <<ret.mask.cols, ret.mask.rows>> = getInputSize(m_model)
        /\ Len(ret.mask.data) = ret.mask.rows * ret.mask.cols
        /\ \A k \in 1..Len(ret.mask.data) : ret.mask.data[k] \in {0, 255}

\* a mask holding both values, made from logits of another size
C13_Witness ==
    /\ Back("getMask", "mask")
    /\ hist.lastOk = ImageB
    /\ models.maskShape = <<1, 1, 1, 4>>
    /\ ret.mask.rows = 1 /\ ret.mask.cols = 2
    /\ ret.mask.data \in {<<0, 255>>, <<255, 0>>}

\* C14: when the runtime's Run fails inside loadImage, loadImage returns
\* false to the caller; when it fails inside getMask, getMask returns an
\* error; in neither case does an exception leave the call.
C14_RuntimeFailureIsAResult ==
    /\ ( /\ pc = "returned" /\ ret.op = "loadImage"
         /\ runs.pre > 0 /\ ret.kind # "true" ) => ret.kind = "false"
    /\ ( /\ pc = "returned" /\ ret.op = "getMask"
         /\ runs.sam > 0 /\ ret.kind # "mask" ) => ret.kind = "error"

\* C15: what loadImage gives back for an image of the wrong size differs
\* from what it gives back for an image of the wrong channel count, so
\* that the caller can tell the two apart, and both differ from the outcome
\* of a failed inference; in both cases the embedding model is not run.
C15_DistinctValidationErrors ==
    ( /\ pc = "returned" /\ ret.op = "loadImage"
      /\ Len(m_model.inputShapePre) >= 4 /\ Len(m_model.outputShapePre) >= 4
      /\ ValidateImage(m_model, image) # "ok" ) =>
        /\ runs.pre = 0
        /\ ret.kind # "exception"
        /\ \A other \in Images :
              ( /\ ValidateImage(m_model, other) # "ok"
                /\ ValidateImage(m_model, other) # ValidateImage(m_model, image) ) =>
                  loadImage(m_model, other, 0).ret # ret

\* the call in progress, or just returned, gives the decoder the inputs
\* and the caller the result that the four-parameter form gives for the
\* arguments q on the same session
SameAsGeneralForm(q) ==
    /\ runs.sam > 0 =>
          runs.samInputs = InputTensorsSam(m_model, GetMaskLocals(m_model, q))
    /\ Back("getMask", "mask") => ret = getMask(m_model, q, models.maskShape)
    /\ (Back("getMask", "exception") /\ runs.sam = 0) =>
          getMask(m_model, q, models.maskShape).kind = "exception"

\* C16: getMask(point, iou) gives the decoder inputs and the result of
\* getMask([point], [], no box, iou), and getMask(points, negativePoints,
\* iou) those of getMask(points, negativePoints, no box, iou), no box being
\* any cv::Rect without positive width and height, on every session with
\* rank-4 shapes, loaded or not.
C16_FormsAgree ==
    ( /\ \/ pc \in {"gm_run", "gm_resize", "gm_threshold"}
         \/ pc = "returned" /\ ret.op = "getMask"
      /\ Len(m_model.inputShapePre) >= 4 ) =>
        \A r \in { b \in RectPool : ~(b.width > 0 /\ b.height > 0) } :
            /\ prompt.call.form = "point" =>
                  SameAsGeneralForm([points |-> <<prompt.call.point>>,
                                     negativePoints |-> <<>>,
                                     roi |-> r, iou |-> prompt.call.iou])
            /\ prompt.call.form = "points" =>
                  SameAsGeneralForm([points |-> prompt.call.points,
                                     negativePoints |-> prompt.call.negativePoints,
                                     roi |-> r, iou |-> prompt.call.iou])

C16_Witness ==
    /\ Back("getMask", "mask")
    /\ prompt.call.form = "point"
    /\ prompt.call.point = [x |-> BigCoord, y |-> 3]
    /\ prompt.call.iou = "ptr"
    /\ runs.samInputs[2].data = <<2^24, 3>>
    /\ runs.samInputs[3].data = <<1>>
    /\ ret.iou # <<>>

\* C17 as stated: a pair whose embedding model has 1 input and 1 output,
\* both of rank 4, and whose decoder declares the three required inputs
\* together with the three auxiliary ones, loads and leaves the session
\* ready; a pair with another input or output count or another rank does
\* not.
C17_LoadsWithAuxiliaryInputs ==
    pc # "new" =>
        /\ ( /\ models.exists[0] /\ models.exists[1]
             /\ models.preInputs = 1 /\ models.preOutputs = 1
             /\ Len(models.preInShape) = 4 /\ Len(models.preOutShape) = 4
             /\ models.samInputs = 6 ) => m_model.bModelLoaded
        /\ ( \/ models.preInputs # 1 \/ models.preOutputs # 1
             \/ Len(models.preInShape) # 4 \/ Len(models.preOutShape) # 4 ) =>
               ~m_model.bModelLoaded

\* C17 as amended: the session is ready exactly when both model files
\* exist, the embedding model has 1 input and 1 output, both of rank 4,
\* and the decoder has exactly 3 inputs; a decoder that declares the
\* auxiliary inputs too (6 inputs) is turned down; a ready session holds
\* both handles and the two declared shapes.
C17_LoadSucceedsExactlyWhen ==
    pc # "new" =>
        /\ m_model.bModelLoaded <=>
              ( /\ models.exists[0] /\ models.exists[1]
                /\ models.preInputs = 1 /\ models.preOutputs = 1
                /\ models.samInputs = 3
                /\ Len(models.preInShape) = 4 /\ Len(models.preOutShape) = 4 )
        /\ models.samInputs = 6 => ~m_model.bModelLoaded
        /\ m_model.bModelLoaded =>
              /\ m_model.sessionPre = "open" /\ m_model.sessionSam = "open"
              /\ m_model.inputShapePre = models.preInShape
              /\ m_model.outputShapePre = models.preOutShape

C17_Witness ==
    /\ pc = "idle"
    /\ m_model.bModelLoaded
    /\ m_model.sessionSam = "open"
    /\ models.samInputs = 3
    /\ m_model.inputShapePre = <<1, 3, 1, 2>>
    /\ m_model.outputTensorValuesPre = <<>>

C17_WitnessAuxiliary ==
    /\ pc = "idle"
    /\ ~m_model.bModelLoaded
    /\ models.exists[0] /\ models.exists[1]
    /\ models.preInputs = 1 /\ models.preOutputs = 1
    /\ Len(models.preInShape) = 4 /\ Len(models.preOutShape) = 4
    /\ models.samInputs = 6
    /\ m_model.sessionSam = "open"

\* C18: the steps of a loadImage call leave the readiness flag, the two
\* model handles, the two recorded shapes and the caller's image as they
\* were; when the call returns true the session is the constructed one
\* with the embedding buffer holding the image's embedding, and nothing
\* else differs.
C18_LoadImageChangesCacheOnly ==
    /\ [][ ( \/ pc = "idle" /\ pc' = "li_run"
             \/ pc = "li_run" /\ pc' = "returned" ) =>
              /\ m_model'.bModelLoaded = m_model.bModelLoaded
              /\ m_model'.sessionPre = m_model.sessionPre
              /\ m_model'.sessionSam = m_model.sessionSam
              /\ m_model'.inputShapePre = m_model.inputShapePre
              /\ m_model'.outputShapePre = m_model.outputShapePre
              /\ pc = "li_run" => image' = image
              /\ models' = models ]_vars
    /\ []( Back("loadImage", "true") =>
              /\ image \in Images
              /\ image = hist.lastOk
              /\ m_model = [SamModelCtor(models) EXCEPT
                               !.outputTensorValuesPre = EmbeddingOf(image)] )

\* a successful load that did change the embedding buffer
C18_Witness ==
    /\ Back("loadImage", "true")
    /\ hist.prevOk = ImageA /\ image = ImageB
    /\ m_model.bModelLoaded
    /\ m_model.outputTensorValuesPre = EmbeddingOf(ImageB)
    /\ EmbeddingOf(ImageB) # EmbeddingOf(ImageA)
    /\ runs.pre = 1

\* a getMask call is in progress or has just returned
InGetMask ==
    \/ pc \in {"gm_run", "gm_resize", "gm_threshold"}
    \/ pc \in {"returned", "crashed"} /\ ret.op = "getMask"

\* C19: the embedding model is run by loadImage alone: once in a
\* loadImage call on a ready session that passes the checks, not at all in
\* one that fails them, never in a getMask call; a getMask call leaves the
\* session as it was, and every getMask made after a successful loadImage
\* hands the decoder the embedding that loadImage computed, however many
\* getMask calls came before it.
C19_EmbeddingComputedOncePerImage ==
    /\ [][ (runs'.pre # runs.pre /\ pc' # "idle") =>
              (pc = "li_run" /\ runs'.pre = runs.pre + 1) ]_vars
    /\ [][ ( \/ pc \in {"gm_run", "gm_resize", "gm_threshold"}
             \/ pc = "idle" /\ pc' = "gm_run"
             \/ pc = "idle" /\ ret'.op = "getMask" ) =>
              (m_model' = m_model /\ runs'.pre = runs.pre) ]_vars
    /\ []( InGetMask => runs.pre = 0 )
    /\ []( (pc = "returned" /\ ret.op = "loadImage" /\ m_model.bModelLoaded) =>
              runs.pre = IF ValidateImage(m_model, image) = "ok" THEN 1 ELSE 0 )
    /\ []( (runs.sam > 0 /\ m_model.bModelLoaded) =>
              /\ runs.samInputs[1].data = m_model.outputTensorValuesPre
              /\ (hist.lastOk # NoImage /\ ~hist.tainted) =>
                    runs.samInputs[1].data = EmbeddingOf(hist.lastOk) )

C19_Witness ==
    /\ Back("getMask", "mask")
    /\ hist.prevOk = NoImage /\ hist.lastOk = ImageB /\ ~hist.tainted
    /\ runs.pre = 0 /\ runs.sam = 1
    /\ runs.samInputs[1].data = EmbeddingOf(ImageB)
    /\ m_model.outputTensorValuesPre = EmbeddingOf(ImageB)

\* C20: a call starts with no runtime invocation made; a loadImage call
\* runs the embedding model at most once and a getMask call the decoder at
\* most once; the step that runs a model ends the call when the run fails,
\* and no model is run again in the same call.
C20_NoRetry ==
    /\ []( /\ runs.pre <= 1 /\ runs.sam <= 1
           /\ pc \in {"new", "idle"} => runs = NoRuns
           /\ pc = "li_run" => runs.pre = 0
           /\ pc = "gm_run" => runs.sam = 0
           /\ Back("loadImage", "exception") => runs.pre <= 1
           /\ Back("getMask", "exception") => runs.sam <= 1 )
    /\ [][ (pc = "li_run" /\ runs'.pre # runs.pre) =>
              /\ pc' = "returned"
              /\ runs'.pre = 1
              /\ ret'.kind \in {"true", "exception"} ]_vars
    /\ [][ (pc = "gm_run" /\ runs'.sam # runs.sam) =>
              /\ runs'.sam = 1
              /\ pc' \in {"gm_resize", "returned"}
              /\ pc' = "returned" => ret'.kind = "exception" ]_vars
    /\ [][ (runs'.sam > runs.sam => pc = "gm_run")
           /\ (runs'.pre > runs.pre => pc = "li_run") ]_vars

\* the embedding model failed part-way, after an earlier successful load
C20_Witness ==
    /\ Back("loadImage", "exception")
    /\ runs.pre = 1
    /\ hist.lastOk = ImageA /\ hist.tainted
    /\ m_model.outputTensorValuesPre # EmbeddingOf(ImageA)
    /\ m_model.outputTensorValuesPre # Zeros(Len(m_model.outputTensorValuesPre))

C20_WitnessDecoder ==
    /\ Back("getMask", "exception")
    /\ runs.sam = 1
    /\ hist.lastOk = ImageA

\* C21: after a loadImage whose embedding-model run failed, the embedding
\* buffer is either empty or holds the embedding of the image loaded
\* before; it is not zero-filled or partly written.
C21_FailedLoadKeepsOrClearsCache ==
    ( /\ Back("loadImage", "exception")
      /\ m_model.bModelLoaded /\ runs.pre = 1 ) =>
        \/ m_model.outputTensorValuesPre = <<>>
        \/ /\ hist.lastOk # NoImage
           /\ m_model.outputTensorValuesPre = EmbeddingOf(hist.lastOk)

\* C22: with loadImage and getMask running on one session from two
\* threads, the embedding the decoder reads is a complete one, that of an
\* image loadImage was given, never a zero-filled or half-written buffer,
\* and the read never faults.
C22_DecoderSeesCompleteEmbedding ==
    /\ threads.g.pc # "crashed"
    /\ threads.g.ran =>
          threads.g.seen \in { EmbeddingOf(img) : img \in {ImageA, ImageB} }

\* C23: on a session that is not ready, loadImage returns false and
\* getMask returns an error, no model is run, and the call neither faults
\* nor ends in an exception.
C23_NotReadyCallsReturnErrors ==
    ( /\ pc \in {"returned", "crashed"}
      /\ ret.op \in {"loadImage", "getMask"}
      /\ ~m_model.bModelLoaded ) =>
        /\ pc = "returned"
        /\ ret.op = "loadImage" => ret.kind = "false"
        /\ ret.op = "getMask" => ret.kind = "error"
        /\ runs = NoRuns

\* the members of SamModel that the constructor sets
Fixed(m) == <<m.inputShapePre, m.outputShapePre, m.bModelLoaded,
              m.sessionPre, m.sessionSam>>

\* C24: once the session is constructed, no getInputSize, loadImage or
\* getMask step, whether the call succeeds or fails, changes the recorded
\* input and output shapes, the readiness flag or the two model handles:
\* they stay what the constructor made them.
C24_SessionFixedAfterConstruction ==
    /\ [][ pc # "new" => (Fixed(m_model') = Fixed(m_model) /\ models' = models) ]_vars
    /\ []( pc # "new" => Fixed(m_model) = Fixed(SamModelCtor(models)) )

\* a ready session after two successful loads and a failed decoder run
C24_Witness ==
    /\ Back("getMask", "exception")
    /\ runs.sam = 1
    /\ hist.prevOk = ImageA /\ hist.lastOk = ImageB /\ hist.tainted
    /\ Fixed(m_model) = << <<1, 3, 1, 2>>, <<1, 1, 1, 2>>, TRUE, "open", "open" >>

\* C25: no step of a getMask call changes the session: the embedding
\* buffer, the shapes, the flag and the handles are after the call what
\* they were before it; the session has no member that holds a prompt, a
\* mask or an IoU, and after a getMask that follows a successful loadImage
\* it is the constructed session holding that image's embedding.
C25_GetMaskLeavesSessionUnchanged ==
    /\ [][ ( \/ pc \in {"gm_run", "gm_resize", "gm_threshold"}
             \/ pc = "idle" /\ pc' = "gm_run"
             \/ pc = "idle" /\ ret'.op = "getMask" ) =>
              (m_model' = m_model /\ models' = models /\ hist' = hist) ]_vars
    /\ []( DOMAIN m_model = { "sessionPre", "sessionSam", "inputShapePre",
                              "outputShapePre", "outputTensorValuesPre",
                              "bModelLoaded" } )
    /\ []( (InGetMask /\ hist.lastOk # NoImage /\ ~hist.tainted) =>
              m_model = [SamModelCtor(models) EXCEPT
                            !.outputTensorValuesPre = EmbeddingOf(hist.lastOk)] )

C25_Witness ==
    /\ Back("getMask", "mask")
    /\ hist.lastOk = ImageA /\ hist.prevOk = NoImage /\ ~hist.tainted
    /\ BoxPresent(prompt) /\ prompt.iou = "ptr"
    /\ ret.iou # <<>>
    /\ Len(ret.mask.data) = 2
    /\ m_model.outputTensorValuesPre = EmbeddingOf(ImageA)

\* C26: the decoder is given coordinates of shape 1 x N x 2 and labels of
\* shape 1 x N, N being the number of positive points plus the number of
\* negative points plus 2 when a box is encoded; the coordinate array
\* holds 2N values and the label array N, and label k and coordinate pair
\* k come from the same entry of the prompt.
C26_PromptTensorShapes ==
    runs.sam > 0 =>
        LET coords == runs.samInputs[2]
            labels == runs.samInputs[3]
            boxEncoded == \E k \in 1..Len(labels.data) : labels.data[k] \in {2, 3}
            N == Len(prompt.points) + Len(prompt.negativePoints)
                   + (IF boxEncoded THEN 2 ELSE 0)
        IN  /\ coords.shape = <<1, N, 2>>
            /\ labels.shape = <<1, N>>
            /\ Len(coords.data) = 2 * N
            /\ Len(labels.data) = N
            /\ \A k \in 1..N :
                  /\ labels.data[k] = EntryLabel(prompt, k)
                  /\ coords.data[2 * k - 1] = ToFloat(EntryPoint(prompt, k).x)
                  /\ coords.data[2 * k] = ToFloat(EntryPoint(prompt, k).y)

C26_Witness ==
    /\ Back("getMask", "mask")
    /\ Len(prompt.points) = 1 /\ prompt.negativePoints = <<>>
    /\ BoxPresent(prompt)
    /\ runs.samInputs[2].shape = <<1, 3, 2>>
    /\ runs.samInputs[3].shape = <<1, 3>>
    /\ Len(runs.samInputs[2].data) = 6
    /\ runs.samInputs[3].data = <<1, 2, 3>>

\* C27: the input tensor loadImage builds for an H x W image has 3*H*W
\* elements; for every pixel (i, j) the byte of image channel 2 divided by
\* 255 is at offset i*W+j, that of channel 1 at H*W+i*W+j and that of
\* channel 0 at 2*H*W+i*W+j; the offsets of different (plane, pixel) pairs
\* differ and together they are all the offsets of the tensor.
C27_PlanarChannelReversed ==
    (pc = "li_run" /\ image # NoImage) =>
        LET H == image.rows
            W == image.cols
            t == loc.inputTensorValuesFloat
            Offsets == { <<c, i, j, c * H * W + i * W + j>> :
                            c \in 0..2, i \in 0..(H - 1), j \in 0..(W - 1) }
        IN  /\ Len(t) = 3 * H * W
            /\ \A i \in 0..(H - 1), j \in 0..(W - 1) :
                  /\ t[i * W + j + 1] = <<At(image, i, j, 2), 255>>
                  /\ t[H * W + i * W + j + 1] = <<At(image, i, j, 1), 255>>
                  /\ t[2 * H * W + i * W + j + 1] = <<At(image, i, j, 0), 255>>
            /\ { o[4] : o \in Offsets } = 0..(3 * H * W - 1)
            /\ Cardinality(Offsets) = 3 * H * W

C27_Witness ==
    /\ pc = "li_run"
    /\ image.rows = 2 /\ image.cols = 3
    /\ image.data = [k \in 1..18 |-> k]
    /\ Numerators(loc.inputTensorValuesFloat) =
          <<3, 6, 9, 12, 15, 18, 2, 5, 8, 11, 14, 17, 1, 4, 7, 10, 13, 16>>

\* C28: the IoU getMask reports is element 0 of the decoder's scores
\* output as the decoder gave it, also when it lies outside [0, 1]; it is
\* stored only when the caller passed a place for it, and the mask
\* returned is the one the same call gives with the other choice of iou.
C28_IouPassedThrough ==
    Back("getMask", "mask") =>
        LET out == RunSam(runs.samInputs[1].data, runs.samInputs[2].data,
                          runs.samInputs[3].data, models.maskShape)
            other == [prompt EXCEPT !.iou = IF @ = "ptr" THEN "null" ELSE "ptr"]
        IN  /\ loc.scores = out.scores
            /\ prompt.iou = "ptr" => ret.iou = out.scores[1]
            /\ prompt.iou = "null" => ret.iou = <<>>
            /\ ret.mask = getMask(m_model, other, models.maskShape).mask

\* a score above 1 reaches the caller as it is
C28_Witness ==
    /\ Back("getMask", "mask")
    /\ prompt.iou = "ptr"
    /\ ret.iou = <<5, 4>>
    /\ loc.scores = << <<5, 4>>, <<1, 4>> >>

C28_WitnessNegative ==
    /\ Back("getMask", "mask")
    /\ prompt.iou = "ptr"
    /\ ret.iou = <<-1, 4>>

C28_WitnessNoPlace ==
    /\ Back("getMask", "mask")
    /\ prompt.iou = "null"
    /\ loc.scores[1] = <<5, 4>>
    /\ ret.iou = <<>>

\* C29: in every state, a true readiness flag means that both handles are
\* open, the embedding model has 1 input and 1 output, the decoder has 3
\* inputs and both recorded shapes have rank 4; the flag is false before
\* construction; when the embedding model fails its count check the
\* decoder handle stays null and no shape is recorded, and when a model
\* file is missing neither handle is opened.
C29_ReadyImpliesChecksPassed ==
    /\ pc = "new" => m_model = NewSamModel
    /\ m_model.bModelLoaded =>
          /\ m_model.sessionPre = "open" /\ m_model.sessionSam = "open"
          /\ models.exists[0] /\ models.exists[1]
          /\ models.preInputs = 1 /\ models.preOutputs = 1
          /\ models.samInputs = 3
          /\ Len(m_model.inputShapePre) = 4 /\ Len(m_model.outputShapePre) = 4
    /\ ( /\ pc # "new" /\ models.exists[0] /\ models.exists[1]
         /\ (models.preInputs # 1 \/ models.preOutputs # 1) ) =>
          /\ m_model.sessionPre = "open" /\ m_model.sessionSam = "null"
          /\ m_model.inputShapePre = <<>> /\ m_model.outputShapePre = <<>>
    /\ (pc # "new" /\ ~(models.exists[0] /\ models.exists[1])) =>
          (m_model.sessionPre = "null" /\ m_model.sessionSam = "null")
    /\ (m_model.sessionSam = "open" /\ m_model.inputShapePre = <<>>) =>
          models.samInputs # 3

\* the embedding model has two outputs: its handle is open, the decoder's
\* is not
C29_Witness ==
    /\ pc = "idle"
    /\ models.exists[0] /\ models.exists[1]
    /\ models.preInputs = 1 /\ models.preOutputs = 2
    /\ models.samInputs = 3
    /\ m_model.sessionPre = "open" /\ m_model.sessionSam = "null"
    /\ ~m_model.bModelLoaded

C29_WitnessReady ==
    /\ Back("loadImage", "true")
    /\ m_model.bModelLoaded
    /\ m_model.sessionPre = "open" /\ m_model.sessionSam = "open"

\* C30: on a ready session the embedding buffer holds either no element,
\* exactly when no loadImage has got past the checks yet, or as many as
\* the product of the four dimensions of the embedding model's output
\* shape; the image_embeddings tensor the decoder is given has as many
\* elements as its shape declares.
C30_CacheLengthMatchesShape ==
    m_model.bModelLoaded =>
        /\ Len(m_model.outputShapePre) = 4
        /\ Len(m_model.outputTensorValuesPre) \in {0, Product(models.preOutShape)}
        /\ Len(m_model.outputTensorValuesPre) = 0 <=>
              (hist.lastOk = NoImage /\ ~hist.tainted)
        /\ runs.sam > 0 =>
              /\ runs.samInputs[1].shape = models.preOutShape
              /\ Len(runs.samInputs[1].data) = Product(runs.samInputs[1].shape)

\* the first load failed in Run: the buffer has its full length
C30_Witness ==
    /\ Back("loadImage", "exception")
    /\ m_model.bModelLoaded
    /\ hist.lastOk = NoImage /\ hist.tainted
    /\ runs.pre = 1
    /\ Len(m_model.outputTensorValuesPre) = 2

C30_WitnessEmpty ==
    /\ Back("loadImage", "false")
    /\ m_model.bModelLoaded
    /\ hist.lastOk = NoImage /\ ~hist.tainted
    /\ m_model.outputTensorValuesPre = <<>>

====
